---- MODULE Spec2Model ----
(***************************************************************************)
(* Model of src/app.py: a Flask front-end around a YOLO detector.  The     *)
(* state is the module's globals (frame, video_path, cumulative_counts,    *)
(* camera_counts, final_percentages, video_processing_complete, the three  *)
(* locks), the upload directory, and the position and locals of each       *)
(* thread: the process_video worker, one upload_video request, one         *)
(* stop_stream request, one camera_feed request, the upload_image request  *)
(* threads and the generate_frames generators of the connected             *)
(* /video_feed clients.                                                    *)
(*                                                                         *)
(* Percentages are Python floats: binary64 numbers, written as a 53-bit    *)
(* significand and an exponent, and computed as the source does, count /   *)
(* total first and * 100 second, each rounded to nearest-even.             *)
(*                                                                         *)
(* held is who holds each of lock, counts_lock and camera_lock.  Every     *)
(* with block is a body, the statements inside the block.  An action of    *)
(* the handlers runs a with block in one step when its lock is free; a     *)
(* generator holds the frame lock while it is suspended at its yield and   *)
(* while it sleeps inside the with block.  SpecLocks runs the same bodies  *)
(* with every with statement taken apart into entering, body and leaving   *)
(* (with_enter, with_body, with_exit, t_pc).                               *)
(***************************************************************************)
EXTENDS Integers, Sequences, FiniteSets, TLC

\* ---------------------------------------------------------------- bounds
MaxFrames == 2      \* frames a video capture delivers before end of stream
MaxDet == 1         \* detections the detector returns for one image
MaxUploads == 2     \* accepted video uploads in one run
MaxCount == 2       \* total of camera_counts up to which camera frames are sent
NumClients == 1     \* connected /video_feed clients
\* the largest count of one label in the counter tables given to the
\* percentage computation
MaxCell == 2
MaxImageRequests == 2   \* /upload_image requests handled at the same time
\* requests in the handlers that take a lock, handled at the same time while
\* the with blocks are followed one lock operation at a time
MaxBusy == 1
\* with blocks the request threads leave before no further request is taken
MaxBlocks == 2

\* ------------------------------------------------------- program constants
class_names == << "Anthracnose Fruit Rot", "Gray Mold", "Powdery Mildew Fruit",
                  "Powdery Mildew Leaf", "Ripe", "Unripe", "Rotten" >>

Labels == { class_names[i] : i \in 1..Len(class_names) }

\* model.names of the loaded detector: the seven labels under ids 0..6, and
\* one id whose name is not in class_names (an out-of-vocabulary class).
model_names(class_id) ==
    IF class_id \in 0..(Len(class_names) - 1) THEN class_names[class_id + 1]
    ELSE "unlisted"

\* class ids the detector is let to return: Ripe, Unripe, out-of-vocabulary
DetIds == {4, 5, 7}

\* detections.class_id of one inference call
Detections == UNION { [1..n -> DetIds] : n \in 0..MaxDet }

VideoNames == {"a.mp4", "b.mp4"}

None == "None"

\* {name: 0 for name in class_names}
ZeroCounts == [name \in Labels |-> 0]

\* ----------------------------------------------------------- percentages
RECURSIVE SumUpTo(_, _)
SumUpTo(counts, i) ==
    IF i = 0 THEN 0 ELSE counts[class_names[i]] + SumUpTo(counts, i - 1)

\* sum(counts.values())
sum_values(counts) == SumUpTo(counts, Len(class_names))

\* A Python float is an IEEE 754 binary64 number.  A positive one is written
\* here as man * 2^exp, where man is its 53-bit significand
\* (2^52 <= man < 2^53) given by four digits of base 2^14, most significant
\* first; every digit and every intermediate value stays below 2^31.
\* 33.33333333333333 (0x4040AAAAAAAAAAAA) is
\* [exp |-> -47, man |-> <<1066, 10922, 10922, 10922>>].
MantBits == 53
Base == 16384

\* the int 0 of the else branch and of line 48, and the float 0.0
IntZero == [kind |-> "int", val |-> 0]
FloatZero == [kind |-> "float", exp |-> 0, man |-> << 0, 0, 0, 0 >>]

\* the digits a (most significant first) divided by the small number d from
\* digit i on, r being the remainder carried in and q the quotient digits so
\* far: quotient digits and remainder
RECURSIVE DivDigits(_, _, _, _, _)
DivDigits(a, d, i, r, q) ==
    IF i > Len(a) THEN [q |-> q, r |-> r]
    ELSE DivDigits(a, d, i + 1, (r * Base + a[i]) % d,
                   Append(q, (r * Base + a[i]) \div d))

\* the digits a times the small number k plus the carry c, one digit longer
RECURSIVE MulDigits(_, _, _)
MulDigits(a, k, c) ==
    IF a = << >> THEN << c >>
    ELSE LET n == Len(a)
             t == a[n] * k + c
         IN  MulDigits(SubSeq(a, 1, n - 1), k, t \div Base) \o << t % Base >>

\* the digits a plus one
RECURSIVE IncDigits(_)
IncDigits(a) ==
    IF a = << >> THEN << >>
    ELSE LET n == Len(a)
         IN  IF a[n] + 1 < Base THEN [a EXCEPT ![n] = @ + 1]
             ELSE IncDigits(SubSeq(a, 1, n - 1)) \o << 0 >>

\* a / d rounded to the nearest integer, a tie to the even one: the rounding
\* of every binary64 operation
RoundedDiv(a, d) ==
    LET D == DivDigits(a, d, 1, 0, << >>)
        up == \/ 2 * D.r > d
              \/ 2 * D.r = d /\ D.q[Len(D.q)] % 2 = 1
    IN  IF up THEN IncDigits(D.q) ELSE D.q

\* the float of significand m and exponent e; a significand rounded up to
\* 2^53 is 2^52 with the next exponent
MakeFloat(m, e) ==
    IF m[1] = 2 ^ (MantBits - 42)
      THEN [kind |-> "float", exp |-> e + 1,
            man |-> << 2 ^ (MantBits - 43), 0, 0, 0 >>]
      ELSE [kind |-> "float", exp |-> e, man |-> m]

\* the number of doublings of a that reach b, and of halvings of a that come
\* below 2b
RECURSIVE UpShift(_, _)
UpShift(a, b) == IF a >= b THEN 0 ELSE 1 + UpShift(2 * a, b)

RECURSIVE DownShift(_, _)
DownShift(a, b) == IF a < 2 * b THEN 0 ELSE 1 + DownShift(a, 2 * b)

\* count / total of two ints (total > 0): the quotient rounded to 53 bits
float_truediv(count, total) ==
    IF count = 0 THEN FloatZero
    ELSE LET k == UpShift(count, total)
             j == DownShift(count, total)
             m == RoundedDiv(<< count * 2 ^ k * 2 ^ (MantBits - 43), 0, 0, 0 >>,
                             total * 2 ^ j)
         IN  MakeFloat(m, j - k - (MantBits - 1))

\* the number of bits of h above the 11 of a leading significand digit
RECURSIVE BitsOver(_)
BitsOver(h) == IF h < 2 ^ (MantBits - 42) THEN 0 ELSE 1 + BitsOver(h \div 2)

\* x * n of a float and the int n (0 < n < 2^14, so n is a float exactly):
\* the product rounded to 53 bits
float_mul(x, n) ==
    IF x.man = << 0, 0, 0, 0 >> THEN FloatZero
    ELSE LET p == MulDigits(x.man, n, 0)
             s == BitsOver(p[1] * Base + p[2])
         IN  MakeFloat(Tail(RoundedDiv(p, 2 ^ s)), x.exp + s)

\* the comprehension without its factor 100: the share of each label
percentages_of_unscaled(counts) ==
    LET total == sum_values(counts) IN
    [name \in Labels |-> IF total > 0 THEN float_truediv(counts[name], total)
                         ELSE IntZero]

\* {name: (count / total * 100) if total > 0 else 0 for name, count in counts.items()}
percentages_of(counts) ==
    LET total == sum_values(counts) IN
    [name \in Labels |-> IF total > 0
                           THEN float_mul(float_truediv(counts[name], total), 100)
                           ELSE IntZero]

\* line 48: {name: 0 for name in class_names}
AllZeroPct == [name \in Labels |-> IntZero]

\* the generators of the connected /video_feed clients
Clients == { "generate_frames " \o ToString(g) : g \in 1..NumClients }

\* ------------------------------------------------------------- the locks
\* lines 49-51
Locks == {"lock", "counts_lock", "camera_lock"}

\* the worker thread and one request thread for each handler that takes a
\* lock; the generators of Clients are threads too
Threads == {"process_video", "upload_video", "camera_feed", "camera_counts",
            "detection_counts", "final_counts", "stop_stream", "stop_camera"}

\* the shared objects the locks are there for, and the lock of each
Guarded == {"frame", "cumulative_counts", "final_percentages", "camera_counts"}

GuardOf(object) ==
    IF object = "frame" THEN "lock"
    ELSE IF object = "camera_counts" THEN "camera_lock"
    ELSE "counts_lock"

\* ------------------------------------------------------------------ state
VARIABLES
    model,                      \* "YOLO" when best.pt loaded, None otherwise
    frame,                      \* the shared frame slot
    video_path,                 \* the work-queue slot
    cumulative_counts,          \* video counter table
    camera_counts,              \* what the global name camera_counts is bound to
    final_percentages,          \* final snapshot of the last finished video
    video_processing_complete,  \* completion flag
    held,                       \* who holds each lock: "free" or a thread
    uploads,                    \* static/uploads: video name -> content id, 0 absent
    static_files,               \* annotated images written under static/
    next_id,                    \* content id of the next accepted video upload
    \* process_video thread
    w_pc, cap, frame_count, w_dets,
    \* upload_video request
    u_pc, u_file, u_id, u_resp, acked,
    \* stop_stream request
    s_pc, s_resp, s_inloop, s_cap, stop_mark, s_cancel,
    \* each thread's place with respect to a with block, and the number of
    \* with blocks the request threads have left
    t_pc, blocks,
    \* camera_feed request
    c_pc, c_req, c_dets, c_resp,
    \* generate_frames generators
    g_pc,
    \* poll endpoints, upload_image, stop_camera: last response
    poll_resp, img_resp,
    \* upload_image requests: position of each request thread, its
    \* file.filename, the detections its inference call returned, and the
    \* image files under static/uploads
    i_pc, i_req, i_dets, image_files,
    \* history of the worker: content ids whose frames were exhausted
    exhausted, overlap

shared == << model, frame, video_path, cumulative_counts, camera_counts,
             final_percentages, video_processing_complete, held, uploads, next_id >>
wvars == << w_pc, cap, frame_count, w_dets >>
uvars == << u_pc, u_file, u_id, u_resp, acked >>
svars == << s_pc, s_resp, s_inloop, s_cap, stop_mark, s_cancel >>
cvars == << c_pc, c_req, c_dets, c_resp >>
gvars == << g_pc >>
ivars == << i_pc, i_req, i_dets, image_files >>
pvars == << poll_resp, img_resp, static_files, ivars >>
hvars == << exhausted, overlap >>
lvars == << t_pc, blocks >>
vars == << shared, wvars, uvars, svars, cvars, gvars, pvars, hvars, lvars >>

NoFrame == [src |-> None, id |-> 0, n |-> 0]
NoCap == [path |-> None, id |-> 0]
NoCancel == [id |-> 0, n |-> 0]
NoResp == [kind |-> None]
NoOverlap == [first |-> 0, second |-> 0]
NoPoll == [endpoint |-> None, status |-> 0, complete |-> FALSE,
           percentages |-> AllZeroPct]
\* a thread that is in no with block
Outside == [in |-> None, done |-> FALSE]
NoImg == [req |-> None, kind |-> None, percentages |-> AllZeroPct]
ImageThreads == 1..MaxImageRequests
\* the filenames an image upload can carry
ImageNames == {"notes.txt", "leaf.jpg"}

\* the def statement of line 302 rebinds the global name camera_counts, bound
\* to a dict by line 47, to the view function
CameraCountsFunction == [kind |-> "function", tbl |-> ZeroCounts]
CameraCountsDict(tbl) == [kind |-> "dict", tbl |-> tbl]

Init ==
    /\ model \in {"YOLO", None}
    /\ frame = NoFrame
    /\ video_path = None
    /\ cumulative_counts = ZeroCounts
    /\ camera_counts = CameraCountsFunction
    /\ final_percentages = AllZeroPct
    /\ video_processing_complete = FALSE
    /\ held = [l \in Locks |-> "free"]
    /\ uploads = [v \in VideoNames |-> 0]
    /\ next_id = 1
    /\ w_pc = "poll" /\ cap = NoCap /\ frame_count = 0 /\ w_dets = << >>
    /\ u_pc = "idle" /\ u_file = None /\ u_id = 0 /\ u_resp = NoResp /\ acked = {}
    /\ s_pc = "idle" /\ s_resp = NoResp /\ s_inloop = FALSE /\ s_cap = 0
    /\ stop_mark = 0 /\ s_cancel = NoCancel
    /\ c_pc = "idle" /\ c_req = None /\ c_dets = << >> /\ c_resp = NoResp
    /\ g_pc = [g \in Clients |-> "off"]
    /\ poll_resp = NoPoll /\ img_resp = NoImg /\ static_files = {}
    /\ i_pc = [t \in ImageThreads |-> "idle"]
    /\ i_dets = [t \in ImageThreads |-> << >>]
    /\ i_req = [t \in ImageThreads |-> None]
    /\ image_files = [name \in ImageNames |-> "absent"]
    /\ exhausted = {} /\ overlap = NoOverlap
    /\ t_pc = [t \in Threads |-> Outside] /\ blocks = 0

\* ------------------------------------------------------ with statements
\* The with statement the next statement of each thread is, given by its
\* lock, or None when the next statement is no with statement.

\* line 99 (reached for a detection whose label is in frame_counts), line 108,
\* line 117
process_video_with ==
    IF w_pc = "count" /\ model_names(Head(w_dets)) \in Labels THEN "counts_lock"
    ELSE IF w_pc = "publish" THEN "lock"
    ELSE IF w_pc = "finalize" THEN "counts_lock"
    ELSE None

\* line 230
upload_video_with == IF u_pc = "reset" THEN "counts_lock" ELSE None

\* lines 333 and 335
stop_stream_with ==
    IF s_pc = "reset_video" THEN "counts_lock"
    ELSE IF s_pc = "reset_camera" THEN "camera_lock"
    ELSE None

\* lines 277 and 286 with the frame published under the lock of the counts
camera_feed_with_one_lock ==
    IF c_pc = "count" /\ model_names(Head(c_dets)) \in Labels THEN "camera_lock"
    ELSE IF c_pc = "publish" THEN "camera_lock"
    ELSE None

\* line 277 (reached for a detection whose label is in frame_counts), line 286
camera_feed_with ==
    IF c_pc = "count" /\ model_names(Head(c_dets)) \in Labels THEN "camera_lock"
    ELSE IF c_pc = "publish" THEN "lock"
    ELSE None

\* lines 303, 311, 320, 348: the handler is its with block
With(t) ==
    CASE t = "process_video" -> process_video_with
      [] t = "upload_video" -> upload_video_with
      [] t = "stop_stream" -> stop_stream_with
      [] t = "camera_feed" -> camera_feed_with
      [] t = "camera_counts" -> "camera_lock"
      [] t = "detection_counts" -> "counts_lock"
      [] t = "final_counts" -> "counts_lock"
      [] t = "stop_camera" -> "camera_lock"

\* A with block run in one step finds its lock free when it is entered and
\* leaves it free: the condition for the next statement of thread t.
Free(t) == With(t) # None => held[With(t)] = "free"

\* ------------------------------------------------- process_video (worker)
\* positions of the worker inside the frame loop of lines 75-111
FrameLoop == {"read", "count", "publish"}

\* lines 57-59: the slot is polled; an empty slot sleeps and polls again
process_video_poll ==
    /\ w_pc = "poll"
    /\ w_pc' = IF video_path = None THEN "poll" ELSE "open"
    /\ UNCHANGED << shared, cap, frame_count, w_dets, uvars, svars, cvars,
                    gvars, pvars, hvars, lvars >>

\* lines 62-63: cv2.VideoCapture(video_path) reads the slot again.  For None
\* the OpenCV binding, depending on its version, either raises (nothing
\* catches it: the thread ends) or builds a capture that is not open; a path
\* that is absent, or a file that is no video, gives a capture that is not open
process_video_open ==
    /\ w_pc = "open"
    /\ IF video_path = None
         THEN w_pc' \in {"open_raised", "open_failed"} /\ cap' = cap
       ELSE IF uploads[video_path] = 0
         THEN w_pc' = "open_failed" /\ cap' = cap
       ELSE \E opened \in BOOLEAN :
              IF opened
                THEN /\ w_pc' = "begin"
                     /\ cap' = [path |-> video_path, id |-> uploads[video_path]]
                ELSE w_pc' = "open_failed" /\ cap' = cap
    /\ UNCHANGED << shared, frame_count, w_dets, uvars, svars, cvars, gvars,
                    pvars, hvars, lvars >>

\* lines 64-66
process_video_open_failed ==
    /\ w_pc = "open_failed"
    /\ video_path' = None
    /\ w_pc' = "poll"
    /\ UNCHANGED << model, frame, cumulative_counts, camera_counts,
                    final_percentages, video_processing_complete, held, uploads,
                    next_id, cap, frame_count, w_dets, uvars, svars, cvars,
                    gvars, pvars, hvars, lvars >>

\* lines 72-73
process_video_begin ==
    /\ w_pc = "begin"
    /\ frame_count' = 0
    /\ video_processing_complete' = FALSE
    /\ w_pc' = "read"
    /\ UNCHANGED << model, frame, video_path, cumulative_counts, camera_counts,
                    final_percentages, held, uploads, next_id, cap, w_dets,
                    uvars, svars, cvars, gvars, pvars, hvars, lvars >>

\* lines 76-90: cap.read() either ends the stream or delivers a frame; the
\* inference on the frame either raises (the frame is skipped) or returns
\* detections.  The capture keeps reading a file that was unlinked meanwhile.
process_video_read ==
    /\ w_pc = "read"
    /\ \/ /\ w_pc' = "finalize"
          /\ exhausted' = exhausted \cup {cap.id}
          /\ UNCHANGED << frame_count, w_dets >>
       \/ /\ frame_count < MaxFrames
          /\ frame_count' = frame_count + 1
          /\ UNCHANGED exhausted
          /\ \/ w_pc' = "read" /\ w_dets' = << >>
             \/ \E d \in Detections :
                  /\ w_dets' = d
                  /\ w_pc' = IF d = << >> THEN "publish" ELSE "count"
    /\ UNCHANGED << shared, cap, uvars, svars, cvars, gvars, pvars, overlap, lvars >>

\* lines 95-100: one detection is recorded under counts_lock
process_video_count_body ==
    /\ w_pc = "count"
    /\ LET class_name == model_names(Head(w_dets)) IN
         cumulative_counts' =
           IF class_name \in Labels
             THEN [cumulative_counts EXCEPT ![class_name] = @ + 1]
             ELSE cumulative_counts
    /\ w_dets' = Tail(w_dets)
    /\ w_pc' = IF Tail(w_dets) = << >> THEN "publish" ELSE "count"
    /\ UNCHANGED << model, frame, video_path, camera_counts, final_percentages,
                    video_processing_complete, uploads, next_id, cap,
                    frame_count, uvars, svars, cvars, gvars, pvars, hvars >>

process_video_count ==
    /\ Free("process_video")
    /\ process_video_count_body
    /\ UNCHANGED << held, lvars >>

\* lines 105-111: the annotated frame is published under the frame lock
process_video_publish_body ==
    /\ w_pc = "publish"
    /\ frame' = [src |-> "video", id |-> cap.id, n |-> frame_count]
    /\ w_pc' = "read"
    /\ UNCHANGED << model, video_path, cumulative_counts, camera_counts,
                    final_percentages, video_processing_complete, uploads,
                    next_id, cap, frame_count, w_dets, uvars, svars, cvars,
                    gvars, pvars, hvars >>

process_video_publish ==
    /\ Free("process_video")
    /\ process_video_publish_body
    /\ UNCHANGED << held, lvars >>

\* lines 113-121: under counts_lock the final snapshot is stored and the
\* video counter table is replaced by a zeroed one
process_video_finalize_body ==
    /\ w_pc = "finalize"
    /\ final_percentages' = percentages_of(cumulative_counts)
    /\ cumulative_counts' = ZeroCounts
    /\ w_pc' = "remove"
    /\ s_cancel' = NoCancel
    /\ UNCHANGED << model, frame, video_path, camera_counts,
                    video_processing_complete, uploads, next_id, cap,
                    frame_count, w_dets, uvars, s_pc, s_resp, s_inloop, s_cap,
                    stop_mark, cvars, gvars, pvars, hvars >>

process_video_finalize ==
    /\ Free("process_video")
    /\ process_video_finalize_body
    /\ UNCHANGED << held, lvars >>

\* line 123: os.remove(video_path) on the slot as it is now; None raises
\* TypeError and an absent path FileNotFoundError, and nothing catches them
process_video_remove ==
    /\ w_pc = "remove"
    /\ IF video_path = None \/ uploads[video_path] = 0
         THEN w_pc' = "remove_raised" /\ uploads' = uploads
         ELSE w_pc' = "clear" /\ uploads' = [uploads EXCEPT ![video_path] = 0]
    /\ UNCHANGED << model, frame, video_path, cumulative_counts, camera_counts,
                    final_percentages, video_processing_complete, held, next_id,
                    cap, frame_count, w_dets, uvars, svars, cvars, gvars, pvars,
                    hvars, lvars >>

\* line 124
process_video_clear ==
    /\ w_pc = "clear"
    /\ video_path' = None
    /\ w_pc' = "done"
    /\ UNCHANGED << model, frame, cumulative_counts, camera_counts,
                    final_percentages, video_processing_complete, held, uploads,
                    next_id, cap, frame_count, w_dets, uvars, svars, cvars,
                    gvars, pvars, hvars, lvars >>

\* line 125
process_video_done ==
    /\ w_pc = "done"
    /\ video_processing_complete' = TRUE
    /\ w_pc' = "poll"
    /\ UNCHANGED << model, frame, video_path, cumulative_counts, camera_counts,
                    final_percentages, held, uploads, next_id, cap, frame_count,
                    w_dets, uvars, svars, cvars, gvars, pvars, hvars, lvars >>

process_video ==
    \/ process_video_poll
    \/ process_video_open
    \/ process_video_open_failed
    \/ process_video_begin
    \/ process_video_read
    \/ process_video_count
    \/ process_video_publish
    \/ process_video_finalize
    \/ process_video_remove
    \/ process_video_clear
    \/ process_video_done

\* ------------------------------------------------------- filename checks
\* the part of a request's filename that str.endswith looks at
extension_of(filename) ==
    IF filename \in {"a.mp4", "b.mp4"} THEN ".mp4"
    ELSE IF filename = "clip.mov" THEN ".mov"
    ELSE IF filename = "leaf.jpg" THEN ".jpg"
    ELSE IF filename = "notes.txt" THEN ".txt"
    ELSE ""

\* line 162 without its test: every filename is taken for an image
image_extension_any(filename) == TRUE

\* line 162: file.filename.endswith(('.jpg', '.jpeg', '.png'))
image_extension_ok(filename) == extension_of(filename) \in {".jpg", ".jpeg", ".png"}

\* line 225: file.filename.endswith(('.mp4', '.avi'))
video_extension_ok(filename) == extension_of(filename) \in {".mp4", ".avi"}

\* --------------------------------------------------- upload_video request
Resp(kind) == [kind |-> kind]

\* lines 215-223 and 239: the requests that are answered with an error before
\* anything is stored.  req is what the request carries in place of a video:
\* no 'video' part, an empty filename, or a filename with another extension.
upload_video_reject(req) ==
    /\ u_pc = "idle"
    /\ req \in {"no part", "empty filename", "clip.mov"} \cup VideoNames
    /\ video_extension_ok(req) => model = None
    /\ u_file' = req
    /\ u_resp' = IF req = "no part" THEN Resp("No video uploaded")
                 ELSE IF req = "empty filename" THEN Resp("No video selected")
                 ELSE IF model = None THEN Resp("Model not loaded")
                 ELSE Resp("Unsupported video format")
    /\ UNCHANGED << shared, wvars, u_pc, u_id, acked, svars, cvars, gvars,
                    pvars, hvars, lvars >>

\* lines 225-228: the file is saved under its own name in static/uploads;
\* when file.save raises, the handler of lines 235-237 answers and nothing
\* is stored
upload_video_save(name) ==
    /\ u_pc = "idle"
    /\ model # None
    /\ name \in VideoNames /\ video_extension_ok(name)
    /\ next_id <= MaxUploads
    /\ u_file' = name
    /\ \/ /\ uploads' = [uploads EXCEPT ![name] = next_id]
          /\ next_id' = next_id + 1
          /\ u_id' = next_id
          /\ u_resp' = NoResp
          /\ u_pc' = "set"
       \/ /\ u_resp' = Resp("Error uploading video")
          /\ UNCHANGED << uploads, next_id, u_id, u_pc >>
    /\ UNCHANGED << model, frame, video_path, cumulative_counts, camera_counts,
                    final_percentages, video_processing_complete, held, wvars,
                    acked, svars, cvars, gvars, pvars, hvars, lvars >>

\* line 229
upload_video_set ==
    /\ u_pc = "set"
    /\ video_path' = u_file
    /\ u_pc' = "reset"
    /\ overlap' = IF w_pc \in FrameLoop /\ cap.id # u_id
                    THEN [first |-> cap.id, second |-> u_id]
                    ELSE overlap
    /\ UNCHANGED << model, frame, cumulative_counts, camera_counts,
                    final_percentages, video_processing_complete, held, uploads,
                    next_id, wvars, u_file, u_id, u_resp, acked, svars, cvars,
                    gvars, pvars, exhausted,
                    lvars >>

\* what line 231 leaves in the global video counter table: upload_video has
\* no global declaration for cumulative_counts, so the zeroed table is bound
\* to a local name and the global table is not touched
upload_video_reset_counts(counts) == counts

\* lines 230-231
upload_video_reset_body ==
    /\ u_pc = "reset"
    /\ cumulative_counts' = upload_video_reset_counts(cumulative_counts)
    /\ u_pc' = "flag"
    /\ UNCHANGED << model, frame, video_path, camera_counts, final_percentages,
                    video_processing_complete, uploads, next_id, wvars,
                    u_file, u_id, u_resp, acked, svars, cvars, gvars, pvars,
                    hvars >>

upload_video_reset ==
    /\ Free("upload_video")
    /\ upload_video_reset_body
    /\ UNCHANGED << held, lvars >>

\* lines 232-234: the flag is cleared and the upload acknowledged
upload_video_flag ==
    /\ u_pc = "flag"
    /\ video_processing_complete' = FALSE
    /\ u_resp' = Resp("Video uploaded, streaming started")
    /\ acked' = acked \cup {u_id}
    /\ u_pc' = "idle"
    /\ UNCHANGED << model, frame, video_path, cumulative_counts, camera_counts,
                    final_percentages, held, uploads, next_id, wvars, u_file,
                    u_id, svars, cvars, gvars, pvars, hvars, lvars >>

VideoRequests == {"no part", "empty filename", "clip.mov"} \cup VideoNames

\* the steps of an accepted upload
upload_video ==
    \/ \E name \in VideoNames : upload_video_save(name)
    \/ upload_video_set
    \/ upload_video_reset
    \/ upload_video_flag

\* ---------------------------------------------------- stop_stream request
\* line 330: the condition of the if, evaluated on the slot as it is now
stop_stream_check ==
    /\ s_pc = "idle"
    /\ s_pc' = IF video_path # None /\ uploads[video_path] # 0
                 THEN "remove" ELSE "clear"
    /\ s_resp' = NoResp
    /\ s_inloop' = (w_pc \in FrameLoop /\ cap.id >= stop_mark)
    /\ s_cap' = IF w_pc \in FrameLoop THEN cap.id ELSE 0
    /\ stop_mark' = next_id
    /\ s_cancel' = NoCancel
    /\ UNCHANGED << shared, wvars, uvars, cvars, gvars, pvars, hvars, lvars >>

\* line 331: os.remove(video_path) reads the slot again; when the worker has
\* removed the file or cleared the slot meanwhile the exception is caught at
\* line 340 and the request ends with an error, nothing being reset
stop_stream_remove ==
    /\ s_pc = "remove"
    /\ IF video_path = None \/ uploads[video_path] = 0
         THEN /\ s_resp' = Resp("Error stopping stream")
              /\ s_pc' = "idle"
              /\ uploads' = uploads
         ELSE /\ uploads' = [uploads EXCEPT ![video_path] = 0]
              /\ s_pc' = "clear"
              /\ s_resp' = s_resp
    /\ UNCHANGED << model, frame, video_path, cumulative_counts, camera_counts,
                    final_percentages, video_processing_complete, held, next_id,
                    wvars, uvars, s_inloop, s_cap, stop_mark, s_cancel, cvars,
                    gvars, pvars, hvars, lvars >>

\* line 332; s_cancel notes the video the worker is processing at this moment
\* and the number of frames it has read of it, until the worker leaves the
\* frame loop or the next stop request arrives
stop_stream_clear ==
    /\ s_pc = "clear"
    /\ video_path' = None
    /\ s_cancel' = IF w_pc \in FrameLoop
                     THEN [id |-> cap.id, n |-> frame_count]
                     ELSE NoCancel
    /\ s_pc' = "reset_video"
    /\ UNCHANGED << model, frame, cumulative_counts, camera_counts,
                    final_percentages, video_processing_complete, held, uploads,
                    next_id, wvars, uvars, s_resp, s_inloop, s_cap, stop_mark,
                    cvars, gvars, pvars, hvars, lvars >>

\* lines 333-334 as they would act without the global declaration of line 328:
\* the zeroed table is bound to a local name
stop_stream_reset_video_local ==
    /\ s_pc = "reset_video"
    /\ cumulative_counts' = upload_video_reset_counts(cumulative_counts)
    /\ s_pc' = "reset_camera"
    /\ UNCHANGED << model, frame, video_path, camera_counts, final_percentages,
                    video_processing_complete, uploads, next_id, wvars,
                    uvars, s_resp, s_inloop, s_cap, stop_mark, s_cancel, cvars,
                    gvars, pvars, hvars >>

\* lines 333-334
stop_stream_reset_video_body ==
    /\ s_pc = "reset_video"
    /\ cumulative_counts' = ZeroCounts
    /\ s_pc' = "reset_camera"
    /\ UNCHANGED << model, frame, video_path, camera_counts, final_percentages,
                    video_processing_complete, uploads, next_id, wvars,
                    uvars, s_resp, s_inloop, s_cap, stop_mark, s_cancel, cvars,
                    gvars, pvars, hvars >>

stop_stream_reset_video ==
    /\ Free("stop_stream")
    /\ stop_stream_reset_video_body
    /\ UNCHANGED << held, lvars >>

\* lines 335-336: the global name camera_counts is bound to a zeroed dict
stop_stream_reset_camera_body ==
    /\ s_pc = "reset_camera"
    /\ camera_counts' = CameraCountsDict(ZeroCounts)
    /\ s_pc' = "flag"
    /\ UNCHANGED << model, frame, video_path, cumulative_counts,
                    final_percentages, video_processing_complete, uploads,
                    next_id, wvars, uvars, s_resp, s_inloop, s_cap, stop_mark,
                    s_cancel, cvars, gvars, pvars, hvars >>

stop_stream_reset_camera ==
    /\ Free("stop_stream")
    /\ stop_stream_reset_camera_body
    /\ UNCHANGED << held, lvars >>

\* lines 337-339
stop_stream_flag ==
    /\ s_pc = "flag"
    /\ video_processing_complete' = FALSE
    /\ s_resp' = Resp("Stream stopped")
    /\ stop_mark' = next_id
    /\ s_pc' = "idle"
    /\ UNCHANGED << model, frame, video_path, cumulative_counts, camera_counts,
                    final_percentages, held, uploads, next_id, wvars, uvars,
                    s_inloop, s_cap, s_cancel, cvars, gvars, pvars, hvars, lvars >>

stop_stream ==
    \/ stop_stream_check
    \/ stop_stream_remove
    \/ stop_stream_clear
    \/ stop_stream_reset_video
    \/ stop_stream_reset_camera
    \/ stop_stream_flag

\* ---------------------------------------------------- camera_feed request
CameraRequests == {"no image", "bad data url", "not an image", "image"}

\* lines 254-260 without the test of line 258: bytes that are not an image
\* are handed on as a decoded frame
camera_feed_decode_unchecked(req) ==
    IF req = "bad data url" THEN "Error processing camera frame"
    ELSE "decoded"

\* lines 254-260, the decoding of the payload: a payload without a comma
\* (IndexError at split(',')[1]) or with bad base64 padding (binascii.Error)
\* raises and is answered by the handler of line 297; bytes that are not an
\* image make imdecode return None, answered at line 260
camera_feed_decode(req) ==
    IF req = "bad data url" THEN "Error processing camera frame"
    ELSE IF req = "not an image" THEN "Failed to decode camera frame"
    ELSE "decoded"

\* lines 249-268: the body is checked and decoded and the detector is called,
\* whatever model is bound to; calling None raises TypeError inside the inner
\* try, as does a detector that fails on the image
camera_feed_begin(req) ==
    /\ c_pc = "idle"
    /\ req \in CameraRequests
    /\ sum_values(camera_counts.tbl) < MaxCount
    /\ c_req' = req
    /\ IF req = "no image"
         THEN /\ c_resp' = Resp("No image data provided")
              /\ c_pc' = "idle" /\ c_dets' = << >>
       ELSE IF camera_feed_decode(req) # "decoded"
         THEN /\ c_resp' = Resp(camera_feed_decode(req))
              /\ c_pc' = "idle" /\ c_dets' = << >>
       ELSE IF model = None
         THEN /\ c_resp' = Resp("Model prediction failed")
              /\ c_pc' = "idle" /\ c_dets' = << >>
       ELSE \/ /\ c_resp' = Resp("Model prediction failed")
               /\ c_pc' = "idle" /\ c_dets' = << >>
            \/ \E d \in Detections :
                 /\ c_dets' = d
                 /\ c_resp' = NoResp
                 /\ c_pc' = IF d = << >> THEN "publish" ELSE "count"
    /\ UNCHANGED << shared, wvars, uvars, svars, gvars, pvars, hvars, lvars >>

\* lines 273-278: one detection is recorded under camera_lock; subscripting
\* the view function raises TypeError, caught at line 297
camera_feed_count_body ==
    /\ c_pc = "count"
    /\ LET class_name == model_names(Head(c_dets)) IN
         IF class_name \in Labels /\ camera_counts.kind = "function"
           THEN /\ c_resp' = Resp("Error processing camera frame")
                /\ c_pc' = "idle"
                /\ UNCHANGED << camera_counts, c_dets >>
           ELSE /\ camera_counts' =
                     IF class_name \in Labels
                       THEN [camera_counts EXCEPT !.tbl[class_name] = @ + 1]
                       ELSE camera_counts
                /\ c_dets' = Tail(c_dets)
                /\ c_pc' = IF Tail(c_dets) = << >> THEN "publish" ELSE "count"
                /\ c_resp' = c_resp
    /\ UNCHANGED << model, frame, video_path, cumulative_counts,
                    final_percentages, video_processing_complete, uploads,
                    next_id, wvars, uvars, svars, c_req, gvars, pvars, hvars >>

camera_feed_count ==
    /\ Free("camera_feed")
    /\ camera_feed_count_body
    /\ UNCHANGED << held, lvars >>

\* lines 280-287: the annotated frame is published under the frame lock;
\* the request is not answered yet
camera_feed_publish_body ==
    /\ c_pc = "publish"
    /\ frame' = [src |-> "camera", id |-> 0, n |-> 0]
    /\ c_pc' = "answer"
    /\ UNCHANGED << model, video_path, cumulative_counts, camera_counts,
                    final_percentages, video_processing_complete, uploads,
                    next_id, wvars, uvars, svars, c_req, c_dets, c_resp, gvars,
                    pvars, hvars >>

camera_feed_publish ==
    /\ Free("camera_feed")
    /\ camera_feed_publish_body
    /\ UNCHANGED << held, lvars >>

\* what the request is answered with after the frame is published: the JPEG
\* (line 296), the error of lines 291-293 when cv2.imencode gives no buffer,
\* or that of lines 297-299 when it raises
EncodeAnswers == {"image/jpeg", "Failed to encode camera frame",
                  "Error processing camera frame"}

\* lines 289-299, after the frame lock is released: the handler's own
\* annotated frame is encoded and the request is answered, whatever the
\* frame slot holds by then
camera_feed_answer ==
    /\ c_pc = "answer"
    /\ \E kind \in EncodeAnswers : c_resp' = Resp(kind)
    /\ c_pc' = "idle"
    /\ UNCHANGED << shared, wvars, uvars, svars, c_req, c_dets, gvars, pvars,
                    hvars, lvars >>

camera_feed ==
    \/ \E req \in CameraRequests : camera_feed_begin(req)
    \/ camera_feed_count
    \/ camera_feed_publish
    \/ camera_feed_answer

\* lines 344-354
stop_camera_body ==
    /\ camera_counts' = CameraCountsDict(ZeroCounts)
    /\ UNCHANGED << model, frame, video_path, cumulative_counts,
                    final_percentages, video_processing_complete, uploads,
                    next_id, wvars, uvars, svars, cvars, gvars, pvars, hvars >>

stop_camera ==
    /\ Free("stop_camera")
    /\ stop_camera_body
    /\ UNCHANGED << held, lvars >>

\* ------------------------------------------- video_feed / generate_frames
\* line 243: a client connects and its generator is created
video_feed(g) ==
    /\ g_pc[g] = "off"
    /\ g_pc' = [g_pc EXCEPT ![g] = "loop"]
    /\ UNCHANGED << shared, wvars, uvars, svars, cvars, pvars, hvars, lvars >>

\* line 129: the generator enters the with block
generate_frames_with(g) ==
    /\ g_pc[g] = "loop"
    /\ held["lock"] = "free"
    /\ held' = [held EXCEPT !["lock"] = g]
    /\ g_pc' = [g_pc EXCEPT ![g] = "entered"]
    /\ UNCHANGED << model, frame, video_path, cumulative_counts, camera_counts,
                    final_percentages, video_processing_complete, uploads,
                    next_id, wvars, uvars, svars, cvars, pvars, hvars, lvars >>

\* lines 130-143, where the generator stands after them: with an empty slot
\* at the sleep of line 131; with a frame at the yield of line 139 when
\* cv2.imencode gave a buffer, and at the continue of line 137 or 143 when
\* it gave none or raised
generate_frames_after(encoded) ==
    IF frame = NoFrame THEN "sleeping"
    ELSE IF encoded THEN "yielded"
    ELSE "continue"

\* lines 130-143 inside the with block
generate_frames_body(g) ==
    /\ g_pc[g] = "entered"
    /\ \E encoded \in BOOLEAN :
         g_pc' = [g_pc EXCEPT ![g] = generate_frames_after(encoded)]
    /\ UNCHANGED << shared, wvars, uvars, svars, cvars, pvars, hvars, lvars >>

\* lines 129-143 in one step: the frame lock is taken; the generator sleeps
\* or yields inside the with block and keeps the lock, or the encoding fails
\* and the continue leaves the block at once
generate_frames_next(g) ==
    /\ g_pc[g] = "loop"
    /\ held["lock"] = "free"
    /\ \E encoded \in BOOLEAN :
         IF generate_frames_after(encoded) = "continue"
           THEN UNCHANGED << held, g_pc >>
           ELSE /\ held' = [held EXCEPT !["lock"] = g]
                /\ g_pc' = [g_pc EXCEPT ![g] = generate_frames_after(encoded)]
    /\ UNCHANGED << model, frame, video_path, cumulative_counts, camera_counts,
                    final_percentages, video_processing_complete, uploads,
                    next_id, wvars, uvars, svars, cvars, pvars, hvars, lvars >>

\* line 139 -> 144: the server has written the chunk and asks for the next
\* one; the generator goes on to the sleep of line 144, still inside the
\* with block
generate_frames_resume(g) ==
    /\ g_pc[g] = "yielded"
    /\ g_pc' = [g_pc EXCEPT ![g] = "sleeping"]
    /\ UNCHANGED << shared, wvars, uvars, svars, cvars, pvars, hvars, lvars >>

\* lines 131-132, 137, 143 and 144: the sleep ends or the encoding has
\* failed, the with block is left (by the continue or at its end), the lock
\* is released and the loop starts again
generate_frames_release(g) ==
    /\ g_pc[g] \in {"sleeping", "continue"}
    /\ held["lock"] = g
    /\ held' = [held EXCEPT !["lock"] = "free"]
    /\ g_pc' = [g_pc EXCEPT ![g] = "loop"]
    /\ UNCHANGED << model, frame, video_path, cumulative_counts, camera_counts,
                    final_percentages, video_processing_complete, uploads,
                    next_id, wvars, uvars, svars, cvars, pvars, hvars, lvars >>

\* the client closes the connection: the server closes the generator,
\* GeneratorExit is raised at the yield and the with block releases the lock
generate_frames_close(g) ==
    /\ g_pc[g] = "yielded"
    /\ held' = [held EXCEPT !["lock"] = "free"]
    /\ g_pc' = [g_pc EXCEPT ![g] = "off"]
    /\ UNCHANGED << model, frame, video_path, cumulative_counts, camera_counts,
                    final_percentages, video_processing_complete, uploads,
                    next_id, wvars, uvars, svars, cvars, pvars, hvars, lvars >>

\* the client keeps the connection open and stops reading: the server's write
\* of the chunk never returns and the generator stays suspended at the yield
client_stalls(g) ==
    /\ g_pc[g] = "yielded"
    /\ g_pc' = [g_pc EXCEPT ![g] = "stalled"]
    /\ UNCHANGED << shared, wvars, uvars, svars, cvars, pvars, hvars, lvars >>

\* ----------------------------------------------------------- poll endpoints
\* lines 301-307: inside the view the global name camera_counts is the view
\* itself until stop_camera or stop_stream has bound it to a dict
camera_counts_of(binding) ==
    IF binding.kind = "function"
      THEN [endpoint |-> "camera_counts", status |-> 500,
            complete |-> FALSE, percentages |-> AllZeroPct]
      ELSE [endpoint |-> "camera_counts", status |-> 200,
            complete |-> FALSE,
            percentages |-> percentages_of(binding.tbl)]

\* what /camera_counts answers in the current state
camera_counts_response == camera_counts_of(camera_counts)

camera_counts_view_body ==
    /\ poll_resp' = camera_counts_response
    /\ UNCHANGED << model, frame, video_path, cumulative_counts, camera_counts,
                    final_percentages, video_processing_complete, uploads, next_id, wvars, uvars, svars, cvars, gvars, img_resp,
                    static_files, ivars, hvars >>

camera_counts_view ==
    /\ Free("camera_counts")
    /\ camera_counts_view_body
    /\ UNCHANGED << held, lvars >>

\* lines 309-315: the answer of /detection_counts for a content of the table
detection_counts_of(counts) ==
    [endpoint |-> "detection_counts", status |-> 200, complete |-> FALSE,
     percentages |-> percentages_of(counts)]

\* what /detection_counts answers in the current state
detection_counts_response == detection_counts_of(cumulative_counts)

detection_counts_body ==
    /\ poll_resp' = detection_counts_response
    /\ UNCHANGED << model, frame, video_path, cumulative_counts, camera_counts,
                    final_percentages, video_processing_complete, uploads, next_id, wvars, uvars, svars, cvars, gvars, img_resp,
                    static_files, ivars, hvars >>

detection_counts ==
    /\ Free("detection_counts")
    /\ detection_counts_body
    /\ UNCHANGED << held, lvars >>

\* lines 317-324: what /final_counts answers in the current state; flag and
\* snapshot are read in one step under counts_lock
final_counts_response ==
    [endpoint |-> "final_counts", status |-> 200,
     complete |-> video_processing_complete,
     percentages |-> final_percentages]

final_counts_body ==
    /\ poll_resp' = final_counts_response
    /\ UNCHANGED << model, frame, video_path, cumulative_counts, camera_counts,
                    final_percentages, video_processing_complete, uploads, next_id, wvars, uvars, svars, cvars, gvars, img_resp,
                    static_files, ivars, hvars >>

final_counts ==
    /\ Free("final_counts")
    /\ final_counts_body
    /\ UNCHANGED << held, lvars >>

\* --------------------------------------------------------------- upload_image
ImageRequests == {"no part", "empty filename"} \cup ImageNames

\* line 184: f"annotated_{file.filename}"
annotated(filename) == IF filename = "leaf.jpg" THEN "annotated_leaf.jpg"
                       ELSE "annotated_notes.txt"

RECURSIVE CountKnown(_, _)
\* lines 187-192: class_counts after the loop over detections.class_id
CountKnown(dets, counts) ==
    IF dets = << >> THEN counts
    ELSE LET class_name == model_names(Head(dets)) IN
         CountKnown(Tail(dets),
                    IF class_name \in Labels
                      THEN [counts EXCEPT ![class_name] = @ + 1]
                      ELSE counts)

\* The request threads of /upload_image run side by side (the server is
\* threaded), and all of them stage the upload under the name the client
\* sent.  Each call that touches the file system (file.save, cv2.imread,
\* os.remove, os.path.exists, cv2.imwrite) is one step.  i_req[t] is
\* file.filename of the request thread t is working on, and
\* image_files[name] is the file static/uploads/<name>: "absent", or what the
\* last file.save wrote, an "image" or "garbage" that cv2.imread cannot decode.
ImgResp(req, kind) == [req |-> req, kind |-> kind, percentages |-> AllZeroPct]

\* lines 150-166: the early returns, and file.save(filepath), which stores
\* the file or raises into the handler of line 204
upload_image_begin(t, req, readable) ==
    /\ i_pc[t] = "idle"
    /\ req \in ImageRequests
    /\ IF req = "no part"
         THEN img_resp' = ImgResp(req, "No image uploaded")
              /\ UNCHANGED << i_pc, i_req, image_files >>
       ELSE IF req = "empty filename"
         THEN img_resp' = ImgResp(req, "No image selected")
              /\ UNCHANGED << i_pc, i_req, image_files >>
       ELSE IF model = None
         THEN img_resp' = ImgResp(req, "Model not loaded")
              /\ UNCHANGED << i_pc, i_req, image_files >>
       ELSE IF ~image_extension_ok(req)
         THEN img_resp' = ImgResp(req, "Unsupported image format")
              /\ UNCHANGED << i_pc, i_req, image_files >>
       ELSE /\ i_req' = [i_req EXCEPT ![t] = req]
            /\ UNCHANGED img_resp
            /\ \/ /\ image_files' = [image_files EXCEPT
                                      ![req] = IF readable THEN "image"
                                               ELSE "garbage"]
                  /\ i_pc' = [i_pc EXCEPT ![t] = "saved"]
               \/ /\ i_pc' = [i_pc EXCEPT ![t] = "raised"]
                  /\ UNCHANGED image_files
    /\ UNCHANGED << shared, wvars, uvars, svars, cvars, gvars, poll_resp,
                    static_files, i_dets, hvars, lvars >>

\* lines 168-169: cv2.imread(filepath) gives None for a file that is not
\* there or that does not decode
upload_image_read(t) ==
    /\ i_pc[t] = "saved"
    /\ i_pc' = [i_pc EXCEPT ![t] = IF image_files[i_req[t]] = "image" THEN "loaded"
                                   ELSE "unreadable"]
    /\ UNCHANGED << shared, wvars, uvars, svars, cvars, gvars, poll_resp,
                    img_resp, static_files, i_dets, i_req, image_files,
                    hvars, lvars >>

\* lines 170-171: os.remove(filepath) raises FileNotFoundError when the file
\* is not there, which the handler of line 204 catches
upload_image_unreadable(t) ==
    /\ i_pc[t] = "unreadable"
    /\ IF image_files[i_req[t]] # "absent"
         THEN /\ image_files' = [image_files EXCEPT ![i_req[t]] = "absent"]
              /\ img_resp' = ImgResp(i_req[t], "Error: Could not load image")
              /\ i_pc' = [i_pc EXCEPT ![t] = "idle"]
         ELSE /\ i_pc' = [i_pc EXCEPT ![t] = "raised"]
              /\ UNCHANGED << img_resp, image_files >>
    /\ i_req' = [i_req EXCEPT ![t] = IF i_pc'[t] = "idle" THEN None ELSE @]
    /\ UNCHANGED << shared, wvars, uvars, svars, cvars, gvars, poll_resp,
                    static_files, i_dets, hvars, lvars >>

\* lines 173-186: the inference call; when it fails, os.remove(filepath) of
\* line 177 and the answer of line 178; when it succeeds, the annotated image
\* is written under static/
upload_image_predict(t) ==
    /\ i_pc[t] = "loaded"
    /\ \/ /\ IF image_files[i_req[t]] # "absent"
               THEN /\ image_files' = [image_files EXCEPT ![i_req[t]] = "absent"]
                    /\ img_resp' = ImgResp(i_req[t], "Model prediction failed")
                    /\ i_pc' = [i_pc EXCEPT ![t] = "idle"]
               ELSE /\ i_pc' = [i_pc EXCEPT ![t] = "raised"]
                    /\ UNCHANGED << img_resp, image_files >>
          /\ UNCHANGED << static_files, i_dets >>
       \/ \E d \in Detections :
            /\ i_dets' = [i_dets EXCEPT ![t] = d]
            /\ static_files' = static_files \cup {annotated(i_req[t])}
            /\ i_pc' = [i_pc EXCEPT ![t] = "written"]
            /\ UNCHANGED << img_resp, image_files >>
    /\ i_req' = [i_req EXCEPT ![t] = IF i_pc'[t] = "idle" THEN None ELSE @]
    /\ UNCHANGED << shared, wvars, uvars, svars, cvars, gvars, poll_resp,
                    hvars, lvars >>

\* lines 188-203: class_counts, percentages, os.remove(filepath) and the
\* answer with the percentages
upload_image_remove(t) ==
    /\ i_pc[t] = "written"
    /\ IF image_files[i_req[t]] # "absent"
         THEN /\ image_files' = [image_files EXCEPT ![i_req[t]] = "absent"]
              /\ img_resp' = [req |-> i_req[t], kind |-> "image_url",
                              percentages |->
                                percentages_of(CountKnown(i_dets[t], ZeroCounts))]
              /\ i_pc' = [i_pc EXCEPT ![t] = "idle"]
         ELSE /\ i_pc' = [i_pc EXCEPT ![t] = "raised"]
              /\ UNCHANGED << img_resp, image_files >>
    /\ i_dets' = [i_dets EXCEPT ![t] = << >>]
    /\ i_req' = [i_req EXCEPT ![t] = IF i_pc'[t] = "idle" THEN None ELSE @]
    /\ UNCHANGED << shared, wvars, uvars, svars, cvars, gvars, poll_resp,
                    static_files, hvars, lvars >>

\* lines 204-206: the handler asks os.path.exists(filepath)
upload_image_except(t) ==
    /\ i_pc[t] = "raised"
    /\ IF image_files[i_req[t]] # "absent"
         THEN /\ i_pc' = [i_pc EXCEPT ![t] = "cleanup"]
              /\ UNCHANGED img_resp
         ELSE /\ img_resp' = ImgResp(i_req[t], "Error processing image")
              /\ i_pc' = [i_pc EXCEPT ![t] = "idle"]
    /\ i_req' = [i_req EXCEPT ![t] = IF i_pc'[t] = "idle" THEN None ELSE @]
    /\ UNCHANGED << shared, wvars, uvars, svars, cvars, gvars, poll_resp,
                    static_files, i_dets, image_files, hvars, lvars >>

\* lines 207-208: os.remove(filepath) inside the handler and the answer; a
\* FileNotFoundError raised here leaves the view function and the request is
\* answered by the server's 500 page
upload_image_cleanup(t) ==
    /\ i_pc[t] = "cleanup"
    /\ IF image_files[i_req[t]] # "absent"
         THEN /\ image_files' = [image_files EXCEPT ![i_req[t]] = "absent"]
              /\ img_resp' = ImgResp(i_req[t], "Error processing image")
         ELSE /\ img_resp' = ImgResp(i_req[t], "Internal Server Error")
              /\ UNCHANGED image_files
    /\ i_pc' = [i_pc EXCEPT ![t] = "idle"]
    /\ i_req' = [i_req EXCEPT ![t] = IF i_pc'[t] = "idle" THEN None ELSE @]
    /\ UNCHANGED << shared, wvars, uvars, svars, cvars, gvars, poll_resp,
                    static_files, i_dets, hvars, lvars >>

\* lines 150-210: one request thread
upload_image(t) ==
    \/ \E req \in ImageRequests, readable \in BOOLEAN :
         upload_image_begin(t, req, readable)
    \/ upload_image_read(t)
    \/ upload_image_unreadable(t)
    \/ upload_image_predict(t)
    \/ upload_image_remove(t)
    \/ upload_image_except(t)
    \/ upload_image_cleanup(t)

\* --------------------------------------------- one with block at a time
\* The statements above with every with block taken apart into three steps:
\* the with statement, which waits for the lock and takes it; the statements
\* inside the block, which run whoever holds the lock; and the end of the
\* block, which gives the lock back, also when the block is left by an
\* exception or a return.

\* the with statement of thread t
with_enter(t) ==
    /\ t_pc[t] = Outside
    /\ With(t) # None
    /\ held[With(t)] = "free"
    /\ held' = [held EXCEPT ![With(t)] = t]
    /\ t_pc' = [t_pc EXCEPT ![t] = [in |-> With(t), done |-> FALSE]]
    /\ UNCHANGED blocks
    /\ UNCHANGED << model, frame, video_path, cumulative_counts, camera_counts,
                    final_percentages, video_processing_complete, uploads,
                    next_id, wvars, uvars, svars, cvars, gvars, pvars, hvars >>

\* the statements inside the with block of thread t, taken together with the
\* statements next to the block that change none of the variables after the
\* lock is released (lines 93-98, 102-107 and 110-111, 113-116, 270-276,
\* 280-285, 350-354)
with_body(t) ==
    /\ t_pc[t].in # None
    /\ ~t_pc[t].done
    /\ \/ t = "process_video" /\ \/ process_video_count_body
                                 \/ process_video_publish_body
                                 \/ process_video_finalize_body
       \/ t = "upload_video" /\ upload_video_reset_body
       \/ t = "stop_stream" /\ \/ stop_stream_reset_video_body
                               \/ stop_stream_reset_camera_body
       \/ t = "camera_feed" /\ \/ camera_feed_count_body
                               \/ camera_feed_publish_body
       \/ t = "camera_counts" /\ camera_counts_view_body
       \/ t = "detection_counts" /\ detection_counts_body
       \/ t = "final_counts" /\ final_counts_body
       \/ t = "stop_camera" /\ stop_camera_body
    /\ t_pc' = [t_pc EXCEPT ![t].done = TRUE]
    /\ UNCHANGED << held, blocks >>

\* the end of the with block of thread t
with_exit(t) ==
    /\ t_pc[t].done
    /\ held' = [held EXCEPT ![t_pc[t].in] = "free"]
    /\ t_pc' = [t_pc EXCEPT ![t] = Outside]
    /\ blocks' = IF t = "process_video" THEN blocks ELSE blocks + 1
    /\ UNCHANGED << model, frame, video_path, cumulative_counts, camera_counts,
                    final_percentages, video_processing_complete, uploads,
                    next_id, wvars, uvars, svars, cvars, gvars, pvars, hvars >>

\* a statement of thread t that is no with statement and in no with block
statement(t) ==
    /\ t_pc[t] = Outside
    /\ With(t) = None
    /\ \/ t = "process_video" /\ process_video
       \/ t = "upload_video" /\ upload_video
       \/ t = "stop_stream" /\ stop_stream
       \/ t = "camera_feed" /\ camera_feed

\* whether the next step of a thread is the body of the with block it is in
InBody(t) ==
    IF t \in Clients THEN g_pc[t] = "entered"
    ELSE t_pc[t].in # None /\ ~t_pc[t].done

\* The guarded objects the next statements of a thread read or write when
\* they are the statements of a with block or a statement outside every
\* block.  Worker: line 100; line 109; lines 118-121.  upload_video: line
\* 231 assigns a local name.  stop_stream: lines 334 and 336.  camera_feed:
\* line 278; line 287.  Views: lines 304-305, 312-313, 322-323, 349.
\* Generator: lines 130 and 134.
Touches(t) ==
    CASE t = "process_video" ->
           IF w_pc = "count" /\ model_names(Head(w_dets)) \in Labels
             THEN {"cumulative_counts"}
           ELSE IF w_pc = "publish" THEN {"frame"}
           ELSE IF w_pc = "finalize" THEN {"cumulative_counts", "final_percentages"}
           ELSE {}
      [] t = "upload_video" -> {}
      [] t = "stop_stream" ->
           IF s_pc = "reset_video" THEN {"cumulative_counts"}
           ELSE IF s_pc = "reset_camera" THEN {"camera_counts"}
           ELSE {}
      [] t = "camera_feed" ->
           IF c_pc = "count" /\ model_names(Head(c_dets)) \in Labels
             THEN {"camera_counts"}
           ELSE IF c_pc = "publish" THEN {"frame"}
           ELSE {}
      [] t = "camera_counts" -> {"camera_counts"}
      [] t = "detection_counts" -> {"cumulative_counts"}
      [] t = "final_counts" -> {"final_percentages"}
      [] t = "stop_camera" -> {"camera_counts"}
      [] OTHER -> IF g_pc[t] = "entered" THEN {"frame"} ELSE {}

\* ------------------------------------------------------------ specification
\* the video path: the worker, the accepted uploads and stop_stream
NextVideo ==
    \/ process_video
    \/ upload_video
    \/ stop_stream

SpecVideo == Init /\ [][NextVideo]_vars

\* the camera path: camera_feed, stop_camera, the camera poll and the
\* /video_feed generators reading the frame slot
NextCamera ==
    \/ camera_feed
    \/ stop_camera
    \/ camera_counts_view
    \/ \E g \in Clients : video_feed(g)
    \/ \E g \in Clients : generate_frames_next(g)
    \/ \E g \in Clients : generate_frames_resume(g)
    \/ \E g \in Clients : generate_frames_release(g)
    \/ \E g \in Clients : generate_frames_close(g)
    \/ \E g \in Clients : client_stalls(g)

SpecCamera == Init /\ [][NextCamera]_vars

\* the camera path with the threads scheduled: a request thread that can take
\* the frame lock again and again does take it, a generator whose client reads
\* is resumed; nothing makes a client read or close
FairCamera ==
    /\ SpecCamera
    /\ SF_vars(camera_feed)
    /\ \A g \in Clients : WF_vars(generate_frames_next(g))
    /\ \A g \in Clients : WF_vars(generate_frames_resume(g))
    /\ \A g \in Clients : WF_vars(generate_frames_release(g))

\* the image uploads, the requests that are answered in one step, and the
\* camera requests
NextRequests ==
    \/ \E t \in ImageThreads : upload_image(t)
    \/ \E req \in VideoRequests : upload_video_reject(req)
    \/ camera_feed
    \/ detection_counts
    \/ final_counts

SpecRequests == Init /\ [][NextRequests]_vars

\* both counter tables with everything that records into them or resets
\* them: the worker on one uploaded video, stop_stream, the camera requests
\* that carry an image, stop_camera.  The names of VideoNames are
\* interchangeable in these runs, and the upload requests name a.mp4.  A
\* published camera frame is answered with the JPEG: the answers of lines
\* 291-299 change no table and are in the runs of SpecCamera.
NextCounters ==
    \/ process_video
    \/ (u_pc # "idle" \/ next_id = 1) /\ upload_video /\ u_file' # "b.mp4"
    \/ stop_stream
    \/ stop_camera
    \/ \E req \in {"image"} : camera_feed_begin(req)
    \/ camera_feed_count
    \/ camera_feed_publish
    \/ camera_feed_answer /\ c_resp'.kind = "image/jpeg"

SpecCounters == Init /\ [][NextCounters]_vars

\* the refused uploads next to a running one: the worker on one accepted
\* video, stop_stream, and upload requests with an unsupported extension
NextUploads ==
    \/ process_video
    \/ (u_pc # "idle" \/ next_id = 1) /\ upload_video
    \/ stop_stream
    \/ \E req \in {"clip.mov"} : upload_video_reject(req)
    \/ \E t \in ImageThreads, req \in {"notes.txt"}, readable \in BOOLEAN :
         upload_image_begin(t, req, readable)

SpecUploads == Init /\ [][NextUploads]_vars

\* the percentage computation on its own: the worker stands at the end of
\* the stream of an uploaded video with any content of the video table, the
\* camera table holds the same content, and the two polls and then the
\* computation at the end of the stream are applied
Tables == [Labels -> 0..MaxCell]

InitTables ==
    /\ model = "YOLO"
    /\ frame = [src |-> "video", id |-> 1, n |-> MaxFrames]
    /\ video_path = "a.mp4"
    /\ \E counts \in Tables :
         /\ cumulative_counts = counts
         /\ camera_counts = CameraCountsDict(counts)
    /\ final_percentages = AllZeroPct
    /\ video_processing_complete = FALSE
    /\ held = [l \in Locks |-> "free"]
    /\ uploads = [v \in VideoNames |-> IF v = "a.mp4" THEN 1 ELSE 0]
    /\ next_id = 2
    /\ w_pc = "finalize" /\ cap = [path |-> "a.mp4", id |-> 1]
    /\ frame_count = MaxFrames /\ w_dets = << >>
    /\ u_pc = "idle" /\ u_file = "a.mp4" /\ u_id = 1
    /\ u_resp = Resp("Video uploaded, streaming started") /\ acked = {1}
    /\ s_pc = "idle" /\ s_resp = NoResp /\ s_inloop = FALSE /\ s_cap = 0
    /\ stop_mark = 0 /\ s_cancel = NoCancel
    /\ c_pc = "idle" /\ c_req = None /\ c_dets = << >> /\ c_resp = NoResp
    /\ g_pc = [g \in Clients |-> "off"]
    /\ poll_resp = NoPoll /\ img_resp = NoImg /\ static_files = {}
    /\ i_pc = [t \in ImageThreads |-> "idle"]
    /\ i_dets = [t \in ImageThreads |-> << >>]
    /\ i_req = [t \in ImageThreads |-> None]
    /\ image_files = [name \in ImageNames |-> "absent"]
    /\ exhausted = {1} /\ overlap = NoOverlap
    /\ t_pc = [t \in Threads |-> Outside] /\ blocks = 0

NextTables ==
    \/ w_pc = "finalize" /\ detection_counts
    \/ w_pc = "finalize" /\ camera_counts_view
    \/ process_video_finalize

SpecTables == InitTables /\ [][NextTables]_vars

\* the request threads that are inside a request
Busy == { t \in Threads \ {"process_video"} :
            \/ t_pc[t] # Outside
            \/ t = "upload_video" /\ u_pc # "idle"
            \/ t = "stop_stream" /\ s_pc # "idle"
            \/ t = "camera_feed" /\ c_pc # "idle" }

\* at most MaxBusy requests are handled at the same time, next to the worker
\* and the generators, and no request is taken any more once the request
\* threads have left MaxBlocks with blocks
MayRun(t) ==
    \/ t \in Busy
    \/ t = "process_video"
    \/ Cardinality(Busy) < MaxBusy /\ blocks < MaxBlocks

\* The inputs of the runs in which the with blocks are taken apart: an
\* inference call finds nothing, one Ripe berry or one object of a class
\* that is not in class_names; a camera request carries an image (the
\* requests answered at lines 248-263 reach no with statement); one upload
\* is stored.  These are the values the paths through the with statements
\* depend on: whether line 99 and line 277 are reached, and whether the
\* worker has a video.
LockInputs ==
    /\ w_dets' \in {<< >>, << 4 >>, << 7 >>}
    /\ c_dets' \in {<< >>, << 4 >>, << 7 >>}
    /\ c_req' \in {None, "image"}
    /\ next_id' <= 2

\* every thread with its with blocks taken apart: the worker, the request
\* threads and the generators, in any interleaving
NextLocks ==
    \/ \E t \in Threads : MayRun(t) /\ with_enter(t)
    \/ \E t \in Threads : with_body(t)
    \/ \E t \in Threads : with_exit(t)
    \/ \E t \in Threads : MayRun(t) /\ statement(t) /\ LockInputs
    \/ \E g \in Clients : video_feed(g)
    \/ \E g \in Clients : generate_frames_with(g)
    \/ \E g \in Clients : generate_frames_body(g)
    \/ \E g \in Clients : generate_frames_resume(g)
    \/ \E g \in Clients : generate_frames_release(g)
    \/ \E g \in Clients : generate_frames_close(g)
    \/ \E g \in Clients : client_stalls(g)

SpecLocks == Init /\ [][NextLocks]_vars

Next == NextVideo \/ NextCamera \/ NextRequests

Spec == Init /\ [][Next]_vars

\* ------------------------------------------------------------------ claims
ModelUnavailable == "Model not loaded"

\* C1: the worker runs for the whole life of the process: under every
\* interleaving of upload_video and stop_stream with its steps, the worker
\* thread is never ended by an error raised at its os.remove step.  (The
\* error cv2.VideoCapture may raise for an emptied slot depends on the OpenCV
\* build and is left out of the statement.)
C1_WorkerNeverTerminates == w_pc # "remove_raised"

\* C2: when stop_stream was called while the worker was inside the frame loop
\* of the latest upload (no stop_stream having run on it before), and the
\* worker is still inside it as stop_stream returns, then the source file of that video is deleted, the camera counter
\* table is all-zero, and /final_counts answers complete=false with a
\* percentage of zero for every label.  (The video counter table is left out:
\* the worker may record the frame it has in hand after the reset.)
C2_StopMidProcessing ==
    [][ (/\ s_pc = "flag" /\ s_pc' = "idle" /\ s_inloop
         /\ w_pc \in FrameLoop /\ cap.id = s_cap
         /\ s_cap = next_id - 1 /\ u_pc = "idle") =>
          /\ \A name \in VideoNames : uploads'[name] # s_cap
          /\ camera_counts' = CameraCountsDict(ZeroCounts)
          /\ final_counts_response'.complete = FALSE
          /\ final_counts_response'.percentages = AllZeroPct ]_vars

\* no request is being handled and the worker is back at its poll
Quiescent == w_pc = "poll" /\ u_pc = "idle" /\ s_pc = "idle"

\* ---- exact comparison of returned percentages
\* Exact numbers are six digits of base 2^14, most significant first.
\* x * 2^60 for a number x that is 0 or a float with 2^-8 <= x < 2^8
Scaled(x) ==
    IF x = IntZero \/ x = FloatZero THEN << 0, 0, 0, 0, 0, 0 >>
    ELSE << 0 >> \o MulDigits(x.man, 2 ^ (x.exp + 60), 0)

\* a + b + c for two numbers of the same length, the last carry dropped
RECURSIVE AddDigits(_, _, _)
AddDigits(a, b, c) ==
    IF a = << >> THEN << >>
    ELSE LET n == Len(a)
             t == a[n] + b[n] + c
         IN  AddDigits(SubSeq(a, 1, n - 1), SubSeq(b, 1, n - 1), t \div Base)
               \o << t % Base >>

BigAdd(a, b) == AddDigits(a, b, 0)

\* a * k for a number whose leading digit is 0
BigMul(a, k) == Tail(MulDigits(a, k, 0))

\* a <= b from digit i on
RECURSIVE LexLeq(_, _, _)
LexLeq(a, b, i) ==
    IF i > Len(a) THEN TRUE
    ELSE IF a[i] < b[i] THEN TRUE
    ELSE IF a[i] > b[i] THEN FALSE
    ELSE LexLeq(a, b, i + 1)

BigLeq(a, b) == LexLeq(a, b, 1)

\* |a - b| <= tol
BigWithin(a, b, tol) ==
    IF BigLeq(a, b) THEN BigLeq(b, BigAdd(a, tol)) ELSE BigLeq(a, BigAdd(b, tol))

\* the floats 100.0 and 2^-44 (about 5.7e-14) times 2^60
ScaledHundred == << 0, 1600, 0, 0, 0, 0 >>
ScaledTolerance == << 0, 0, 0, 0, 4, 0 >>

\* the exact sum of the first i values of a percentage table, times 2^60
RECURSIVE ExactSumUpTo(_, _)
ExactSumUpTo(pct, i) ==
    IF i = 0 THEN << 0, 0, 0, 0, 0, 0 >>
    ELSE BigAdd(Scaled(pct[class_names[i]]), ExactSumUpTo(pct, i - 1))

ExactSum(pct) == ExactSumUpTo(pct, Len(class_names))

\* the values of pct add up to 100 exactly / to within 2^-44
SumsToHundred(pct) == ExactSum(pct) = ScaledHundred
SumsToHundredRounded(pct) ==
    BigWithin(ExactSum(pct), ScaledHundred, ScaledTolerance)

\* 100 * 2^60 * count and 2^-44 * 2^60 * total (count, total < 2^14)
HundredTimes(count) ==
    << (1600 * count) \div Base, (1600 * count) % Base, 0, 0, 0, 0 >>
ToleranceTimes(total) ==
    << 0, 0, 0, (4 * total) \div Base, (4 * total) % Base, 0 >>

\* the value x is count / total * 100 exactly / to within 2^-44
IsShare(x, count, total) ==
    BigMul(Scaled(x), total) = HundredTimes(count)
IsShareRounded(x, count, total) ==
    IF count = 0 THEN x = FloatZero
    ELSE BigWithin(BigMul(Scaled(x), total), HundredTimes(count),
                   ToleranceTimes(total))

\* upload id is the latest upload and no stop_stream has run since it was saved
LatestUnstopped(id) == id = next_id - 1 /\ id >= stop_mark

\* C3: for an acknowledged upload not followed by a stop_stream or another
\* upload, once the worker has exhausted its frames and is through with it,
\* /final_counts answers complete=true with percentages that sum to 100 up
\* to the rounding of the float arithmetic (all zero when nothing was
\* detected).
C3_FinalAfterExhausted ==
    \A id \in acked :
      (id \in exhausted /\ LatestUnstopped(id) /\ Quiescent) =>
        /\ final_counts_response.complete = TRUE
        /\ \/ SumsToHundredRounded(final_counts_response.percentages)
           \/ final_counts_response.percentages = AllZeroPct

\* C4: for an acknowledged upload (the latest one, with no stop_stream since),
\* /final_counts answers complete=false in every state before the worker has
\* exhausted that video's frames.
C4_IncompleteBeforeExhausted ==
    \A id \in acked :
      (id \notin exhausted /\ LatestUnstopped(id)) =>
        final_counts_response.complete = FALSE

\* C5: when a second video was put into the slot while the worker was in the
\* frame loop of a first one (and there is no stop_stream and no third upload),
\* the worker does not crash, and the video that ends up processed to
\* completion is the one the slot held last, the second.
C5_LastWriterProcessed ==
    (overlap.second # 0 /\ stop_mark = 0 /\ next_id = overlap.second + 1) =>
      /\ w_pc \notin {"open_raised", "remove_raised"}
      /\ (Quiescent /\ video_path = None) => overlap.second \in exhausted

\* C6: in the state right after the reset step of an accepted upload_video,
\* the shared video counter table is zero for every label.
C6_UploadResetsCounts ==
    [][ (u_pc = "reset" /\ u_pc' = "flag") =>
          cumulative_counts' = ZeroCounts ]_vars

\* C7: with the model loaded, a camera_feed request with a well-formed image
\* on which inference succeeds adds one to the camera counter table for each
\* detection with a known label, and ends by publishing its frame and
\* answering with the JPEG, never with an error.
C7_CameraFrameRecorded ==
    [][ /\ (c_pc = "count" /\ c_pc' # "count" /\ model # None) =>
             c_resp'.kind # "Error processing camera frame"
        /\ (c_pc = "count" /\ << c_pc, c_dets >>' # << c_pc, c_dets >>
              /\ model_names(Head(c_dets)) \in Labels) =>
             /\ camera_counts'.kind = "dict"
             /\ camera_counts'.tbl =
                  [camera_counts.tbl EXCEPT ![model_names(Head(c_dets))] = @ + 1]
        /\ (c_pc = "publish" /\ c_pc' = "answer") =>
             frame' = [src |-> "camera", id |-> 0, n |-> 0]
        /\ (c_pc = "answer" /\ c_pc' = "idle") =>
             c_resp'.kind = "image/jpeg" ]_vars

\* C8: in every state, /camera_counts answers with the map from each label to
\* its percentage of the camera counter table.
C8_CameraPollAnswers ==
    [][ poll_resp' # poll_resp =>
          /\ poll_resp'.endpoint = "camera_counts"
          /\ poll_resp'.status = 200
          /\ DOMAIN poll_resp'.percentages = Labels
          /\ poll_resp'.percentages = percentages_of(camera_counts.tbl) ]_vars

\* C9: a camera_feed request that has its frame ready to publish always gets
\* the frame lock and publishes, also when a /video_feed client has stopped
\* reading while its generator is suspended.
C9_PublishNeverBlocks == (c_pc = "publish") ~> (c_pc = "answer")

\* C10: when the detector failed to load, a detection-dependent request that
\* carries a file or an image is answered with the model-unavailable error.
C10_ModelUnavailable ==
    model = None =>
      /\ (c_req = "image" /\ c_pc = "idle") => c_resp.kind = ModelUnavailable
      /\ u_file \in VideoNames => u_resp.kind = ModelUnavailable
      /\ img_resp.req = "leaf.jpg" => img_resp.kind = ModelUnavailable
      /\ \A t \in ImageThreads : i_pc[t] = "idle"

\* C11: no staged file remains forever: once the worker is back at its poll
\* with the slot empty and no request is being handled (nothing is left that
\* would delete a file), the upload directory holds no video file.
C11_NoStagedFileRemains ==
    (Quiescent /\ video_path = None) => \A name \in VideoNames : uploads[name] = 0

\* the three tables are dictionaries keyed by exactly the seven labels
TablesKeyed ==
    /\ DOMAIN cumulative_counts = Labels
    /\ DOMAIN final_percentages = Labels
    /\ camera_counts.kind = "dict" /\ DOMAIN camera_counts.tbl = Labels

\* the steps at which the video table may go back to zero: stop_stream's
\* reset, the reset of an upload, the worker's reset at the end of a stream
VideoResetStep ==
    \/ s_pc = "reset_video" /\ s_pc' = "reset_camera"
    \/ u_pc = "reset" /\ u_pc' = "flag"
    \/ w_pc = "finalize" /\ w_pc' = "remove"

\* the steps at which the camera table may go back to zero: stop_stream's
\* reset and stop_camera (a step of no worker or handler position)
CameraResetStep ==
    \/ s_pc = "reset_camera" /\ s_pc' = "flag"
    \/ UNCHANGED << wvars, uvars, svars, cvars >>

\* C12: in every state the three tables are keyed by exactly the label set,
\* and a count of the video or of the camera table never goes down except at
\* a reset step, where the whole table becomes zero.
C12_KeysFixedCountsMonotone ==
    [][ /\ TablesKeyed /\ TablesKeyed'
        /\ \/ \A name \in Labels :
                cumulative_counts'[name] >= cumulative_counts[name]
           \/ VideoResetStep /\ cumulative_counts' = ZeroCounts
        /\ \/ \A name \in Labels :
                camera_counts'.tbl[name] >= camera_counts.tbl[name]
           \/ CameraResetStep /\ camera_counts'.tbl = ZeroCounts ]_vars

MalformedPayloads == {"bad data url", "not an image"}

\* C13: a camera-frame request with a malformed payload (no comma, bad
\* base64, bytes that are not an image) is answered at once by an error of
\* the decoding stage, and the step changes neither the camera counter table
\* nor the frame slot.
C13_MalformedFrameRejected ==
    [][ (c_req' \in MalformedPayloads /\ cvars' # cvars)
          => /\ c_pc' = "idle"
             /\ c_resp'.kind \in {"Failed to decode camera frame",
                                  "Error processing camera frame"}
             /\ camera_counts' = camera_counts
             /\ frame' = frame ]_vars

\* a malformed frame was answered while the camera table held a count and the
\* frame slot a camera frame
C13_MalformedFrameSeen ==
    /\ c_req = "not an image"
    /\ c_resp.kind = "Failed to decode camera frame"
    /\ frame.src = "camera"
    /\ camera_counts.kind = "dict"
    /\ sum_values(camera_counts.tbl) > 0

\* C14: an upload_image or upload_video request whose filename has an
\* unsupported extension is answered by an error, and the step changes nothing:
\* not the slot, the flag, a counter table, the frame slot, nor the files on
\* disk; no request thread goes on with such a filename past the extension
\* test.
C14_UnsupportedExtensionRejected ==
    [][ /\ \A t \in ImageThreads : i_req'[t] # "notes.txt"
        /\ (img_resp'.req = "notes.txt" /\ img_resp' # img_resp)
             => /\ img_resp'.kind \in {"Unsupported image format", "Model not loaded"}
                /\ UNCHANGED << shared, static_files, image_files >>
        /\ (u_file' = "clip.mov" /\ << u_file, u_resp >>' # << u_file, u_resp >>)
             => /\ u_resp'.kind \in {"Unsupported video format", "Model not loaded"}
                /\ u_pc' = u_pc
                /\ UNCHANGED << shared, static_files, image_files >> ]_vars

\* both refusals were given while a video was in the slot, its file staged,
\* a frame published and a detection counted
C14_RefusedWhileProcessing ==
    /\ img_resp.req = "notes.txt" /\ img_resp.kind = "Unsupported image format"
    /\ u_file = "clip.mov" /\ u_resp.kind = "Unsupported video format"
    /\ video_path # None /\ uploads[video_path] # 0
    /\ frame # NoFrame
    /\ cumulative_counts # ZeroCounts

\* pct gives every label count / total * 100 and sums to 100, both up to the
\* rounding of the two float operations (2^-44), or is the int 0 for every
\* label when the table is empty
IsSnapshot(pct, counts) ==
    LET total == sum_values(counts) IN
    /\ DOMAIN pct = Labels
    /\ IF total > 0
         THEN /\ \A name \in Labels :
                   /\ pct[name].kind = "float"
                   /\ IsShareRounded(pct[name], counts[name], total)
              /\ SumsToHundredRounded(pct)
         ELSE \A name \in Labels : pct[name] = IntZero

\* the same with no rounding allowed
IsExactSnapshot(pct, counts) ==
    LET total == sum_values(counts) IN
    /\ DOMAIN pct = Labels
    /\ IF total > 0
         THEN /\ \A name \in Labels :
                   IsShare(pct[name], counts[name], total)
              /\ SumsToHundred(pct)
         ELSE \A name \in Labels : pct[name] = IntZero

\* C15, up to rounding: whatever a counter table holds, the answer of
\* /detection_counts, the answer of /camera_counts and the final table
\* computed at the end of a stream give every label the float
\* count / total * 100, which is the exact share up to rounding, so the
\* values sum to 100 up to rounding (within 2^-44, about 5.7e-14) when the
\* total is positive, and 0 for every label when it is zero.
C15_SnapshotIsPercentage ==
    [][ /\ (poll_resp' # poll_resp /\ poll_resp'.endpoint = "detection_counts")
             => IsSnapshot(poll_resp'.percentages, cumulative_counts)
        /\ (poll_resp' # poll_resp /\ poll_resp'.endpoint = "camera_counts"
              /\ poll_resp'.status = 200)
             => IsSnapshot(poll_resp'.percentages, camera_counts.tbl)
        /\ (w_pc = "finalize" /\ w_pc' = "remove")
             => IsSnapshot(final_percentages', cumulative_counts) ]_vars

\* C15, with no rounding: the same answers give every label count / total * 100
\* and sum to 100 when the total is positive.
C15_SnapshotSumsToHundred ==
    [][ /\ (poll_resp' # poll_resp /\ poll_resp'.endpoint = "detection_counts")
             => IsExactSnapshot(poll_resp'.percentages, cumulative_counts)
        /\ (poll_resp' # poll_resp /\ poll_resp'.endpoint = "camera_counts"
              /\ poll_resp'.status = 200)
             => IsExactSnapshot(poll_resp'.percentages, camera_counts.tbl)
        /\ (w_pc = "finalize" /\ w_pc' = "remove")
             => IsExactSnapshot(final_percentages', cumulative_counts) ]_vars

\* a poll answered percentages that were rounded and do not sum to 100
\* exactly, and the final table was computed from the same counts
C15_RoundedSnapshot ==
    /\ poll_resp.endpoint \in {"detection_counts", "camera_counts"}
    /\ poll_resp.status = 200
    /\ poll_resp.percentages # AllZeroPct
    /\ ~SumsToHundred(poll_resp.percentages)
    /\ SumsToHundredRounded(poll_resp.percentages)
    /\ final_percentages = poll_resp.percentages

\* a poll of the table answers zero for every label
AllZero(pct) ==
    \/ pct = AllZeroPct
    \/ \A name \in Labels : pct[name] = IntZero \/ pct[name] = FloatZero
ZeroVideoPoll(counts) == AllZero(detection_counts_of(counts).percentages)
ZeroCameraPoll(binding) ==
    /\ camera_counts_of(binding).status = 200
    /\ AllZero(camera_counts_of(binding).percentages)

\* C16: after a reset of a counter table (stop_camera for the camera table,
\* stop_stream for both) the poll of that table answers zero for every label,
\* and a poll that answers zero keeps answering zero until a record step on
\* that table (after a step that changes the table and is no record step,
\* the poll answers something other than zero only if it did so before),
\* however record, poll and reset steps interleave.
C16_ZeroUntilRecorded ==
    [][ /\ (s_pc = "reset_video" /\ s_pc' = "reset_camera")
             => ZeroVideoPoll(cumulative_counts')
        /\ (cumulative_counts' # cumulative_counts
              /\ ~(w_pc = "count" /\ w_dets' = Tail(w_dets))
              /\ ~ZeroVideoPoll(cumulative_counts'))
             => ~ZeroVideoPoll(cumulative_counts)
        /\ (s_pc = "reset_camera" /\ s_pc' = "flag")
             => ZeroCameraPoll(camera_counts')
        /\ (camera_counts' # camera_counts
              /\ UNCHANGED << wvars, uvars, svars, cvars >>)
             => ZeroCameraPoll(camera_counts')
        /\ (camera_counts' # camera_counts
              /\ ~(c_pc = "count" /\ c_dets' = Tail(c_dets))
              /\ ~ZeroCameraPoll(camera_counts'))
             => ~ZeroCameraPoll(camera_counts) ]_vars

\* stop_stream has reset the video table while the worker was inside the
\* frame loop with a detection left to record, after both tables held a count
C16_ResetWhileRecording ==
    /\ s_pc = "reset_camera"
    /\ s_inloop
    /\ w_pc = "count"
    /\ cumulative_counts = ZeroCounts
    /\ camera_counts.kind = "dict" /\ sum_values(camera_counts.tbl) > 0

\* C17: at the end of a stream the file the worker deletes is the existing
\* file of the video it has just processed, and the slot entry it clears is
\* the entry of that video, never that of a video uploaded meanwhile.
C17_WorkerCleansItsOwnVideo ==
    [][ /\ (w_pc = "remove" /\ w_pc' # w_pc)
             => (video_path = cap.path /\ uploads[video_path] = cap.id)
        /\ (w_pc = "clear" /\ w_pc' = "done")
             => video_path = cap.path ]_vars

\* C18: once a stop_stream request that found the worker inside the frame loop
\* of a video has cleared the slot, the worker finishes at most the frame it is on (the
\* frame after the last one read, if it was between two frames), then records
\* and publishes nothing more and writes no final table for that video.
C18_CancelledAtIterationBoundary ==
    [][ (/\ s_inloop /\ s_cap = cap.id
         /\ s_cancel.id = cap.id /\ s_cancel.id # 0
         /\ w_pc' # w_pc)
          => /\ w_pc \in {"count", "publish"} => frame_count <= s_cancel.n + 1
             /\ w_pc # "finalize" ]_vars

\* C20: whenever the completion flag is true, and no upload is half-way
\* through its handler, the slot is empty and the worker is not inside a frame
\* loop: /final_counts never answers complete = true while an acknowledged
\* video is pending or being processed.
C20_CompleteMeansIdle ==
    (final_counts_response.complete /\ u_pc = "idle")
      => (video_path = None /\ w_pc \notin FrameLoop)

\* the step is taken by a thread that holds lock l
WrittenUnder(l) == \E t \in Threads : held[l] = t /\ t_pc'[t] # t_pc[t]

\* C19: every read and write of the frame slot is made by a thread that holds
\* the frame lock, every read and write of the video counter table and of the
\* final table by a thread that holds counts_lock, every read and write of
\* the camera table by a thread that holds camera_lock, and no thread holds
\* two of the three locks at once.
C19_LockDiscipline ==
    /\ [](\A t \in Threads \cup Clients :
            /\ (InBody(t) \/ (t \in Threads /\ With(t) = None))
                 => \A object \in Touches(t) : held[GuardOf(object)] = t
            /\ Cardinality({l \in Locks : held[l] = t}) <= 1)
    /\ [][ /\ frame' # frame => WrittenUnder("lock")
           /\ cumulative_counts' # cumulative_counts => WrittenUnder("counts_lock")
           /\ final_percentages' # final_percentages => WrittenUnder("counts_lock")
           /\ camera_counts' # camera_counts => WrittenUnder("camera_lock") ]_vars

\* the worker is about to write the final table under counts_lock while a
\* generator is suspended at its yield with the frame lock and the camera
\* handler is about to run line 278 for a Ripe berry under camera_lock
C19_ThreeLocksHeld ==
    /\ w_pc = "finalize" /\ InBody("process_video")
    /\ held["counts_lock"] = "process_video"
    /\ \E g \in Clients : held["lock"] = g /\ g_pc[g] = "yielded"
    /\ c_pc = "count" /\ InBody("camera_feed") /\ c_dets = << 4 >>
    /\ held["camera_lock"] = "camera_feed"

====
